---- MODULE Spec2Model ----
(***************************************************************************)
(* ZYBOCHAT: the websocket consumers (app/consumers.py), the store they    *)
(* write (app/models.py) and the chat page view (app/views.py).            *)
(*                                                                         *)
(* Every connection is one consumer instance.  A consumer handles one      *)
(* message of its channel at a time (connect, a client frame, a group      *)
(* event, disconnect); every await of a store operation or of a channel    *)
(* layer call is a point where the other connections may run, so each      *)
(* handler is cut into one action per await.  Timestamps are not modelled. *)
(***************************************************************************)
EXTENDS Integers, Sequences, FiniteSets, TLC

\* ------------------------------------------------------------ bounds
NumUsers == 3
MaxConns == 2
MaxFrames == 3
MaxHttp == 2
MaxIds == 2

\* ------------------------------------------------------------ identities
\* User rows of the store (created by the identity provider, never deleted).
Users == 1..NumUsers
\* AnonymousUser: is_anonymous is true and its id is None (no row has it).
Anonymous == 0
Conns == 1..MaxConns
Reqs == 1..MaxHttp
None == -1

\* Texts a message frame carries (sequences of characters).
Texts == { <<>>, <<" ">>, <<"h">>, <<" ", "h", " ">> }
Whitespace == {" "}

VARIABLES
    is_online,      \* User.is_online, per user row
    conversations,  \* Conversation rows: [id, user1, user2]
    messages,       \* Message rows: [id, conversation, sender, content, is_read]
    nextConv,       \* next Conversation id of the store
    nextMsg,        \* next Message id of the store
    groups,         \* channel layer: set of <<group, channel>>
    scope,          \* per connection: the handshake's [kind, user, other_user_id]
    pc,             \* per connection: position of its consumer
    room,           \* per connection: presence_group / room_group_name, or NoGroup
    local,          \* per connection: locals of the handler in progress
    inbox,          \* per connection: group events waiting on its channel
    client,         \* per connection: the last frame sent to the browser
    http,           \* chat_view requests: [pc, user, peer, conv]
    nframes,        \* client frames received so far
    limit           \* the run's inputs: an index of Runs

vars == << is_online, conversations, messages, nextConv, nextMsg, groups, scope,
           pc, room, local, inbox, client, http, nframes, limit >>

store == << is_online, conversations, messages, nextConv, nextMsg >>

\* ------------------------------------------------------------ pure helpers
\* a connect that lets every identity in
IsAnonymousNever(u) == FALSE
\* self.user.is_anonymous
IsAnonymous(u) == u = Anonymous

Min(a, b) == IF a <= b THEN a ELSE b
Max(a, b) == IF a <= b THEN b ELSE a

\* sorted([a, b])
SortedPair(a, b) == << Min(a, b), Max(a, b) >>

\* a room named after the peer alone
RoomNameByPeer(uid, peer) == << "chat", peer, peer >>
\* f"chat_{user_ids[0]}_{user_ids[1]}"
RoomName(uid, peer) == << "chat", SortedPair(uid, peer)[1], SortedPair(uid, peer)[2] >>
PresenceGroup == << "presence" >>
\* hasattr(self, "room_group_name") / hasattr(self, "presence_group") is false
NoGroup == << >>

RECURSIVE LStrip(_)
LStrip(s) == IF s /= <<>> /\ Head(s) \in Whitespace THEN LStrip(Tail(s)) ELSE s
RECURSIVE RStrip(_)
RStrip(s) == IF s /= <<>> /\ s[Len(s)] \in Whitespace
             THEN RStrip(SubSeq(s, 1, Len(s) - 1)) ELSE s
\* a strip of the leading whitespace alone
StripLeftOnly(s) == LStrip(s)
\* str.strip()
Strip(s) == RStrip(LStrip(s))

Username(u) == << "user", u >>

\* dict.get(key, default) on a parsed JSON object
Get(d, k, default) == IF k \in DOMAIN d THEN d[k] ELSE default

\* Message ids a frame can name.
MsgIds == 1..MaxIds
IdLists == { <<>> } \cup { << i >> : i \in MsgIds }
             \cup { << p[1], p[2] >> : p \in { q \in MsgIds \X MsgIds : q[1] < q[2] } }
Range(s) == { s[i] : i \in DOMAIN s }

\* A JSON null in a text field (a value that is not text).
JsonNull == << "null" >>

\* Client frames: json is whether json.loads accepts the text, object whether
\* the parsed value is a JSON object, data the object.
Object(d) == [json |-> TRUE, object |-> TRUE, data |-> d]
Unparsable == [json |-> FALSE, object |-> FALSE, data |-> << >>]
NotAnObject == [json |-> TRUE, object |-> FALSE, data |-> << >>]

MessageFrames ==
    { Object([type |-> "message", message |-> t]) : t \in Texts }
    \cup { Object([message |-> t]) : t \in Texts }
    \cup { Object([type |-> "message"]) }
MarkFrames ==
    { Object([type |-> "mark_as_read", message_ids |-> l]) : l \in IdLists }
    \cup { Object([type |-> "mark_as_read"]) }
DeleteFrames ==
    { Object([type |-> "delete_message", message_id |-> i]) : i \in MsgIds \cup {0} }
    \cup { Object([type |-> "delete_message"]) }
TypingFrames == { Object([type |-> "typing"]), Object([type |-> "stop_typing"]) }
BadFrames ==
    { Unparsable, NotAnObject, Object([type |-> "ping"]),
      Object([type |-> "message", message |-> JsonNull]) }
Frames == MessageFrames \cup MarkFrames \cup DeleteFrames \cup TypingFrames \cup BadFrames

NoLocal == [content |-> << >>, conv |-> None, message |-> None,
            message_ids |-> << >>, message_id |-> None]
\* Nothing was sent to the browser
NoFrame == << >>
NoReq == [pc |-> "new", user |-> Anonymous, peer |-> None, conv |-> None]

\* ------------------------------------------------------------ channel layer
Members(g) == { c \in Conns : << g, c >> \in groups }

\* A consumer whose task still runs (it reads its channel).
Running(c) == pc[c] \notin {"new", "closed", "crashed"}

\* a channel layer that hands a channel its newest event first
GroupSendNewestFirst(g, ev) ==
    inbox' = [d \in Conns |->
                IF d \in Members(g) /\ Running(d) THEN << ev >> \o inbox[d]
                ELSE inbox[d]]

\* channel_layer.group_send: every current member's channel gets the event;
\* a channel nobody reads any more takes nothing.
GroupSend(g, ev) ==
    inbox' = [d \in Conns |->
                IF d \in Members(g) /\ Running(d) THEN Append(inbox[d], ev)
                ELSE inbox[d]]

\* ------------------------------------------------------------ store operations
\* Conversation.objects.get(user1=u1, user2=u2): the matching rows
ConversationRows(u1, u2) == { cv \in conversations : cv.user1 = u1 /\ cv.user2 = u2 }

\* a table without the unique constraint
UniqueTogetherDropped(u1, u2) == TRUE
\* unique_together = ('user1', 'user2'): may a row (u1, u2) be inserted?
UniqueTogether(u1, u2) == ConversationRows(u1, u2) = {}

\* a save_message that keeps the caller's order
SavePairUnsorted(uid, peer) == << uid, peer >>
\* save_message: user1, user2 = sorted([self.user, other_user], key=lambda u: u.id)
SavePair(uid, peer) == SortedPair(uid, peer)

\* chat_view: user1 = min(request.user, other_user), user2 = max(...), by id
ViewPair(uid, peer) == << Min(uid, peer), Max(uid, peer) >>

\* a filter that selects the rows already read (is_read=True)
MarkReadRowsAlreadyRead(message_ids, reader_id) ==
    { m \in messages : /\ m.id \in Range(message_ids)
                       /\ m.is_read
                       /\ m.sender /= reader_id }
\* a filter without the exclude of the reader's own messages
MarkReadRowsNoExclude(message_ids, reader_id) ==
    { m \in messages : m.id \in Range(message_ids) /\ ~m.is_read }
\* filter(id__in=message_ids, is_read=False).exclude(sender_id=reader_id)
MarkReadRows(message_ids, reader_id) ==
    { m \in messages : /\ m.id \in Range(message_ids)
                       /\ ~m.is_read
                       /\ m.sender /= reader_id }

\* a filter on the id alone
DeleteRowsAnySender(message_id, user_id) == { m \in messages : m.id = message_id }
\* filter(id=message_id, sender_id=user_id)
DeleteRows(message_id, user_id) ==
    { m \in messages : m.id = message_id /\ m.sender = user_id }

\* a lookup that finds a row for every id
UserExistsAlways(id) == TRUE
\* User.objects.get(id=...) / get_object_or_404(User, id=...) finds the row
UserExists(id) == id \in Users

\* a status write that counts sessions: offline is written only when no other
\* session of the user is joined
UpdateUserStatusCounted(uid, status) ==
    is_online' = IF uid \in Users
                    /\ (status \/ ~\E d \in Conns :
                                       /\ scope[d].user = uid
                                       /\ pc[d] \in {"open", "p_send", "c_send"})
                 THEN [is_online EXCEPT ![uid] = status]
                 ELSE is_online

\* a status write that loses the offline value
UpdateUserStatusOnlineOnly(uid, status) ==
    is_online' = IF uid \in Users /\ status THEN [is_online EXCEPT ![uid] = status]
                 ELSE is_online

\* update_user_status: User.objects.get(id=self.user.id) raises for an id with no
\* row (the exception is caught and printed); else the row's is_online is saved.
UpdateUserStatus(uid, status) ==
    is_online' = IF uid \in Users THEN [is_online EXCEPT ![uid] = status]
                 ELSE is_online

\* ------------------------------------------------------------ inputs
\* The handshake scope of a connection: scope["user"] and the route's user_id.
ChatScope(u, peer) == [kind |-> "chat", user |-> u, other_user_id |-> peer]
PresenceScope(u) == [kind |-> "presence", user |-> u, other_user_id |-> None]

\* A run's inputs: the connections that are made (a connection a run does not
\* name is a further session of user 2 with peer 1), the client frames that
\* are sent and how many of them, the chat pages (user, peer) that are
\* requested and how many requests are made.
Run(conns, frames, alphabet, reqs, views) ==
    [conns |-> conns, frames |-> frames, alphabet |-> alphabet,
     reqs |-> reqs, views |-> views]

Hi == Object([type |-> "message", message |-> << " ", "h", " " >>])
Delete1 == Object([type |-> "delete_message", message_id |-> 1])
\* Message frames that name no type, and one that names no text
Untyped == { Object([message |-> t]) : t \in Texts } \cup { Object([type |-> "message"]) }
\* A user id that has no row
NoUser == NumUsers + 1

Runs ==
    << \* the two participants of one conversation
       Run(<< ChatScope(1, 2), ChatScope(2, 1) >>, MaxFrames - 1, Frames, 0, {}),
       \* two sessions of one user
       Run(<< ChatScope(2, 1), ChatScope(2, 1) >>, MaxFrames, { Hi, Delete1 }, 0, {}),
       Run(<< ChatScope(2, 1), ChatScope(2, 1) >>, MaxFrames - 2, TypingFrames, 0, {}),
       \* a participant and an outsider of the conversation
       Run(<< ChatScope(1, 2), ChatScope(3, 1) >>, MaxFrames - 1, Frames, 0, {}),
       \* a chat with oneself, a chat with a user id that has no row
       Run(<< ChatScope(1, 1), ChatScope(1, NoUser) >>, MaxFrames - 1, MessageFrames,
           MaxHttp, { << 1, 1 >>, << 1, NoUser >> }),
       \* sessions and chat pages of both participants
       Run(<< ChatScope(1, 2), ChatScope(2, 1) >>, MaxFrames - 1, { Hi },
           MaxHttp - 1, { << 1, 2 >>, << 2, 1 >> }),
       Run(<< ChatScope(1, 2), ChatScope(2, 1) >>, MaxFrames - 3, { Hi },
           MaxHttp, { << 1, 2 >>, << 2, 1 >> }),
       \* anonymous connections
       Run(<< ChatScope(Anonymous, 1), PresenceScope(Anonymous) >>, MaxFrames - 1,
           Frames, 0, {}),
       Run(<< ChatScope(Anonymous, 1), ChatScope(1, 2) >>, MaxFrames - 1, Frames, 0, {}),
       Run(<< PresenceScope(Anonymous), PresenceScope(1) >>, MaxFrames - 1, Frames, 0, {}),
       \* the presence session and a chat session of one user, of two users
       Run(<< PresenceScope(1), ChatScope(1, 2) >>, MaxFrames - 1, Frames, 0, {}),
       Run(<< PresenceScope(1), PresenceScope(2) >>, MaxFrames - 1, Frames, 0, {}),
       \* frames without a type, without a text, with blank text
       Run(<< ChatScope(1, 2), ChatScope(2, 1) >>, MaxFrames - 1, Untyped, 0, {}) >>

Init ==
    /\ is_online = [u \in Users |-> FALSE]
    /\ conversations = {}
    /\ messages = {}
    /\ nextConv = 1
    /\ nextMsg = 1
    /\ groups = {}
    /\ pc = [c \in Conns |-> "new"]
    /\ room = [c \in Conns |-> NoGroup]
    /\ local = [c \in Conns |-> NoLocal]
    /\ inbox = [c \in Conns |-> << >>]
    /\ client = [c \in Conns |-> NoFrame]
    /\ http = [r \in Reqs |-> NoReq]
    /\ nframes = 0
    /\ limit \in DOMAIN Runs
    /\ scope = [c \in Conns |-> IF c <= Len(Runs[limit].conns)
                                 THEN Runs[limit].conns[c]
                                 ELSE ChatScope(2, 1)]

\* ------------------------------------------------------------ PresenceConsumer
\* connect, up to the first await that yields: an anonymous user is closed;
\* else presence_group is set and the channel joins it.
PresenceConnect(c) ==
    /\ scope[c].kind = "presence"
    /\ pc[c] = "new"
    /\ IF IsAnonymous(scope[c].user)
       THEN /\ pc' = [pc EXCEPT ![c] = "rejected"]
            /\ UNCHANGED << room, groups >>
       ELSE /\ room' = [room EXCEPT ![c] = PresenceGroup]
            /\ groups' = groups \cup { << PresenceGroup, c >> }
            /\ pc' = [pc EXCEPT ![c] = "p_status"]
    /\ UNCHANGED << store, scope, local, inbox, client, http, nframes, limit >>

\* connect: await self.update_user_status(True)
PresenceConnectStatus(c) ==
    /\ pc[c] = "p_status"
    /\ UpdateUserStatus(scope[c].user, TRUE)
    /\ pc' = [pc EXCEPT ![c] = "p_send"]
    /\ UNCHANGED << conversations, messages, nextConv, nextMsg, groups, scope, room,
                    local, inbox, client, http, nframes, limit >>

\* connect: group_send of user_presence (is_online True), then accept
PresenceConnectSend(c) ==
    /\ pc[c] = "p_send"
    /\ GroupSend(room[c], [type |-> "user_presence", user_id |-> scope[c].user,
                              username |-> Username(scope[c].user), is_online |-> TRUE])
    /\ pc' = [pc EXCEPT ![c] = "open"]
    /\ UNCHANGED << store, groups, scope, room, local, client, http, nframes, limit >>

\* disconnect: nothing without presence_group; else update_user_status(False)
PresenceDisconnect(c) ==
    /\ scope[c].kind = "presence"
    /\ pc[c] \in {"open", "rejected"}
    /\ IF room[c] = NoGroup
       THEN /\ pc' = [pc EXCEPT ![c] = "closed"]
            /\ UNCHANGED is_online
       ELSE /\ UpdateUserStatus(scope[c].user, FALSE)
            /\ pc' = [pc EXCEPT ![c] = "pd_send"]
    /\ UNCHANGED << conversations, messages, nextConv, nextMsg, groups, scope, room,
                    local, inbox, client, http, nframes, limit >>

\* disconnect: group_send of user_presence (is_online False)
PresenceDisconnectSend(c) ==
    /\ pc[c] = "pd_send"
    /\ GroupSend(room[c], [type |-> "user_presence", user_id |-> scope[c].user,
                              username |-> Username(scope[c].user), is_online |-> FALSE])
    /\ pc' = [pc EXCEPT ![c] = "pd_discard"]
    /\ UNCHANGED << store, groups, scope, room, local, client, http, nframes, limit >>

\* disconnect: group_discard; the consumer stops
PresenceDisconnectDiscard(c) ==
    /\ pc[c] = "pd_discard"
    /\ groups' = groups \ { << room[c], c >> }
    /\ pc' = [pc EXCEPT ![c] = "closed"]
    /\ inbox' = [inbox EXCEPT ![c] = << >>]
    /\ UNCHANGED << store, scope, room, local, client, http, nframes, limit >>

\* user_presence: the event is forwarded to the browser
PresenceDeliver(c) ==
    /\ scope[c].kind = "presence"
    /\ pc[c] = "open"
    /\ inbox[c] /= << >>
    /\ LET ev == Head(inbox[c]) IN
       client' = [client EXCEPT ![c] = << [type |-> "presence",
                     user_id |-> ev.user_id, username |-> ev.username,
                     is_online |-> ev.is_online] >>]
    /\ inbox' = [inbox EXCEPT ![c] = Tail(@)]
    /\ UNCHANGED << store, groups, scope, pc, room, local, http, nframes, limit >>

\* ------------------------------------------------------------ ChatConsumer
\* connect, up to the first await that yields: an anonymous user is closed;
\* else room_group_name is set and the channel joins the room.
ChatConnect(c) ==
    /\ scope[c].kind = "chat"
    /\ pc[c] = "new"
    /\ IF IsAnonymous(scope[c].user)
       THEN /\ pc' = [pc EXCEPT ![c] = "rejected"]
            /\ UNCHANGED << room, groups >>
       ELSE LET name == RoomName(scope[c].user, scope[c].other_user_id) IN
            /\ room' = [room EXCEPT ![c] = name]
            /\ groups' = groups \cup { << name, c >> }
            /\ pc' = [pc EXCEPT ![c] = "c_status"]
    /\ UNCHANGED << store, scope, local, inbox, client, http, nframes, limit >>

\* connect: await self.update_user_status(True)
ChatConnectStatus(c) ==
    /\ pc[c] = "c_status"
    /\ UpdateUserStatus(scope[c].user, TRUE)
    /\ pc' = [pc EXCEPT ![c] = "c_send"]
    /\ UNCHANGED << conversations, messages, nextConv, nextMsg, groups, scope, room,
                    local, inbox, client, http, nframes, limit >>

\* connect: group_send of user_status (is_online True), then accept
ChatConnectSend(c) ==
    /\ pc[c] = "c_send"
    /\ GroupSend(room[c], [type |-> "user_status", user_id |-> scope[c].user,
                              is_online |-> TRUE])
    /\ pc' = [pc EXCEPT ![c] = "open"]
    /\ UNCHANGED << store, groups, scope, room, local, client, http, nframes, limit >>

\* disconnect: group_discard if room_group_name is set
ChatDisconnect(c) ==
    /\ scope[c].kind = "chat"
    /\ pc[c] \in {"open", "rejected"}
    /\ groups' = IF room[c] /= NoGroup THEN groups \ { << room[c], c >> } ELSE groups
    /\ pc' = [pc EXCEPT ![c] = "d_status"]
    /\ inbox' = [inbox EXCEPT ![c] = << >>]
    /\ UNCHANGED << store, scope, room, local, client, http, nframes, limit >>

\* disconnect: await self.update_user_status(False), whether joined or not
ChatDisconnectStatus(c) ==
    /\ pc[c] = "d_status"
    /\ UpdateUserStatus(scope[c].user, FALSE)
    /\ pc' = [pc EXCEPT ![c] = "d_send"]
    /\ UNCHANGED << conversations, messages, nextConv, nextMsg, groups, scope, room,
                    local, inbox, client, http, nframes, limit >>

\* disconnect: group_send of user_status (is_online False) if room_group_name is
\* set; the consumer stops
ChatDisconnectSend(c) ==
    /\ pc[c] = "d_send"
    /\ IF room[c] /= NoGroup
       THEN GroupSend(room[c], [type |-> "user_status", user_id |-> scope[c].user,
                                   is_online |-> FALSE])
       ELSE UNCHANGED inbox
    /\ pc' = [pc EXCEPT ![c] = "closed"]
    /\ UNCHANGED << store, groups, scope, room, local, client, http, nframes, limit >>

\* receive: a frame is taken only by an accepted, idle consumer
Takes(c, f) ==
    /\ scope[c].kind = "chat"
    /\ pc[c] = "open"
    /\ nframes < Runs[limit].frames
    /\ f \in Runs[limit].alphabet

\* msg_type = data.get("type", "message")
MsgType(f) == Get(f.data, "type", "message")

\* receive raises before its first await: json.loads rejects the text, the
\* parsed value has no get (it is no object), or "message" has no strip.
Raises(f) ==
    \/ ~f.json
    \/ ~f.object
    \/ MsgType(f) = "message" /\ Get(f.data, "message", << >>) = JsonNull

\* receive returns with no effect: empty text after strip, an empty id list,
\* a missing or zero message_id, a type no branch handles.
Ignored(f) ==
    /\ ~Raises(f)
    /\ CASE MsgType(f) = "message" -> Strip(Get(f.data, "message", << >>)) = << >>
         [] MsgType(f) = "mark_as_read" -> Get(f.data, "message_ids", << >>) = << >>
         [] MsgType(f) = "delete_message" -> Get(f.data, "message_id", None) \in {None, 0}
         [] MsgType(f) \in {"typing", "stop_typing"} -> FALSE
         [] OTHER -> TRUE

\* An exception that leaves receive ends the consumer's task: its disconnect
\* handler is never run.
ReceiveRaises(c, f) ==
    /\ Takes(c, f)
    /\ Raises(f)
    /\ nframes' = nframes + 1
    /\ pc' = [pc EXCEPT ![c] = "crashed"]
    /\ inbox' = [inbox EXCEPT ![c] = << >>]
    /\ UNCHANGED << store, groups, scope, room, local, client, http, limit >>

ReceiveIgnored(c, f) ==
    /\ Takes(c, f)
    /\ Ignored(f)
    /\ nframes' = nframes + 1
    /\ UNCHANGED << store, groups, scope, pc, room, local, inbox, client, http, limit >>

\* save_message: User.objects.get(id=self.other_user_id), then get_or_create's
\* get.  A missing user or several rows raise: save_message returns None and
\* receive returns.
SaveMessageGet(c, content) ==
    LET p == SavePair(scope[c].user, scope[c].other_user_id)
        rows == ConversationRows(p[1], p[2])
    IN  IF ~UserExists(scope[c].other_user_id) \/ Cardinality(rows) > 1
        THEN /\ pc' = [pc EXCEPT ![c] = "open"]
             /\ local' = [local EXCEPT ![c] = NoLocal]
        ELSE IF rows = {}
        THEN /\ pc' = [pc EXCEPT ![c] = "sm_create"]
             /\ local' = [local EXCEPT ![c] = [NoLocal EXCEPT !.content = content]]
        ELSE /\ pc' = [pc EXCEPT ![c] = "sm_msg"]
             /\ local' = [local EXCEPT ![c] =
                            [NoLocal EXCEPT !.content = content,
                                            !.conv = (CHOOSE r \in rows : TRUE).id]]

\* receive, type "message": the text is stripped and save_message starts
ReceiveMessage(c, f) ==
    /\ Takes(c, f)
    /\ ~Raises(f) /\ ~Ignored(f)
    /\ MsgType(f) = "message"
    /\ nframes' = nframes + 1
    /\ SaveMessageGet(c, Strip(f.data.message))
    /\ UNCHANGED << store, groups, scope, room, inbox, client, http, limit >>

\* get_or_create: the INSERT; the unique constraint rejects a second row of the
\* pair (IntegrityError) and the row is then read again
SaveMessageCreate(c) ==
    /\ pc[c] = "sm_create"
    /\ LET p == SavePair(scope[c].user, scope[c].other_user_id) IN
       IF UniqueTogether(p[1], p[2])
       THEN /\ conversations' = conversations \cup
                    { [id |-> nextConv, user1 |-> p[1], user2 |-> p[2]] }
            /\ nextConv' = nextConv + 1
            /\ pc' = [pc EXCEPT ![c] = "sm_msg"]
            /\ local' = [local EXCEPT ![c].conv = nextConv]
       ELSE /\ pc' = [pc EXCEPT ![c] = "sm_reget"]
            /\ UNCHANGED << conversations, nextConv, local >>
    /\ UNCHANGED << is_online, messages, nextMsg, groups, scope, room, inbox, client,
                    http, nframes, limit >>

\* get_or_create: the get after an IntegrityError
SaveMessageReget(c) ==
    /\ pc[c] = "sm_reget"
    /\ SaveMessageGet(c, local[c].content)
    /\ UNCHANGED << store, groups, scope, room, inbox, client, http, nframes, limit >>

\* save_message: Message.objects.create(conversation, sender=self.user, content)
SaveMessageInsert(c) ==
    /\ pc[c] = "sm_msg"
    /\ messages' = messages \cup
            { [id |-> nextMsg, conversation |-> local[c].conv,
               sender |-> scope[c].user, content |-> local[c].content,
               is_read |-> FALSE] }
    /\ nextMsg' = nextMsg + 1
    /\ local' = [local EXCEPT ![c].message = nextMsg]
    /\ pc' = [pc EXCEPT ![c] = "sm_send"]
    /\ UNCHANGED << is_online, conversations, nextConv, groups, scope, room, inbox,
                    client, http, nframes, limit >>

\* receive: group_send of chat_message with the created row's id and content
MessageSend(c) ==
    /\ pc[c] = "sm_send"
    /\ GroupSend(room[c], [type |-> "chat_message",
                           message_id |-> local[c].message,
                           message |-> local[c].content,
                           sender_id |-> scope[c].user,
                           sender_name |-> Username(scope[c].user)])
    /\ pc' = [pc EXCEPT ![c] = "open"]
    /\ local' = [local EXCEPT ![c] = NoLocal]
    /\ UNCHANGED << store, groups, scope, room, client, http, nframes, limit >>

\* receive, type "mark_as_read": mark_messages_read, one UPDATE ... SET is_read
ReceiveMarkAsRead(c, f) ==
    /\ Takes(c, f)
    /\ ~Raises(f) /\ ~Ignored(f)
    /\ MsgType(f) = "mark_as_read"
    /\ nframes' = nframes + 1
    /\ LET rows == MarkReadRows(f.data.message_ids, scope[c].user) IN
       messages' = (messages \ rows) \cup { [m EXCEPT !.is_read = TRUE] : m \in rows }
    /\ local' = [local EXCEPT ![c] = [NoLocal EXCEPT !.message_ids = f.data.message_ids]]
    /\ pc' = [pc EXCEPT ![c] = "mr_send"]
    /\ UNCHANGED << is_online, conversations, nextConv, nextMsg, groups, scope, room,
                    inbox, client, http, limit >>

\* receive: group_send of message_read with the frame's id list
MarkReadSend(c) ==
    /\ pc[c] = "mr_send"
    /\ GroupSend(room[c], [type |-> "message_read",
                           message_ids |-> local[c].message_ids])
    /\ pc' = [pc EXCEPT ![c] = "open"]
    /\ local' = [local EXCEPT ![c] = NoLocal]
    /\ UNCHANGED << store, groups, scope, room, client, http, nframes, limit >>

\* receive, types "typing" and "stop_typing": group_send of the event
ReceiveTyping(c, f) ==
    /\ Takes(c, f)
    /\ ~Raises(f)
    /\ MsgType(f) \in {"typing", "stop_typing"}
    /\ nframes' = nframes + 1
    /\ GroupSend(room[c], [type |-> MsgType(f), user_id |-> scope[c].user])
    /\ UNCHANGED << store, groups, scope, pc, room, local, client, http, limit >>

\* receive, type "delete_message": delete_message, one DELETE
ReceiveDeleteMessage(c, f) ==
    /\ Takes(c, f)
    /\ ~Raises(f) /\ ~Ignored(f)
    /\ MsgType(f) = "delete_message"
    /\ nframes' = nframes + 1
    /\ messages' = messages \ DeleteRows(f.data.message_id, scope[c].user)
    /\ local' = [local EXCEPT ![c] = [NoLocal EXCEPT !.message_id = f.data.message_id]]
    /\ pc' = [pc EXCEPT ![c] = "dm_send"]
    /\ UNCHANGED << is_online, conversations, nextConv, nextMsg, groups, scope, room,
                    inbox, client, http, limit >>

\* receive: group_send of deleted with the frame's message_id
DeleteSend(c) ==
    /\ pc[c] = "dm_send"
    /\ GroupSend(room[c], [type |-> "deleted", message_id |-> local[c].message_id])
    /\ pc' = [pc EXCEPT ![c] = "open"]
    /\ local' = [local EXCEPT ![c] = NoLocal]
    /\ UNCHANGED << store, groups, scope, room, client, http, nframes, limit >>

\* a chat_message handler that suppresses the sender's own echo, as typing does
ChatForwardNoEcho(uid, ev) ==
    CASE ev.type = "chat_message" ->
            IF ev.sender_id /= uid
            THEN << [type |-> "message", message_id |-> ev.message_id,
                     message |-> ev.message, sender_id |-> ev.sender_id,
                     sender_name |-> ev.sender_name] >>
            ELSE << >>
      [] ev.type = "message_read" ->
            << [type |-> "read", message_ids |-> ev.message_ids] >>
      [] ev.type \in {"typing", "stop_typing"} ->
            IF ev.user_id /= uid
            THEN << [type |-> ev.type, user_id |-> ev.user_id] >>
            ELSE << >>
      [] ev.type = "deleted" ->
            << [type |-> "deleted", message_id |-> ev.message_id] >>
      [] ev.type = "user_status" ->
            << [type |-> "status", user_id |-> ev.user_id,
                is_online |-> ev.is_online] >>

\* typing handlers that echo the event to the typist's own sessions
ChatForwardTypingEcho(uid, ev) ==
    CASE ev.type = "chat_message" ->
            << [type |-> "message", message_id |-> ev.message_id,
                message |-> ev.message, sender_id |-> ev.sender_id,
                sender_name |-> ev.sender_name] >>
      [] ev.type = "message_read" ->
            << [type |-> "read", message_ids |-> ev.message_ids] >>
      [] ev.type \in {"typing", "stop_typing"} ->
            << [type |-> ev.type, user_id |-> ev.user_id] >>
      [] ev.type = "deleted" ->
            << [type |-> "deleted", message_id |-> ev.message_id] >>
      [] ev.type = "user_status" ->
            << [type |-> "status", user_id |-> ev.user_id,
                is_online |-> ev.is_online] >>

\* a consumer without the deleted handler's send
ChatForwardNoDeleted(uid, ev) ==
    CASE ev.type = "chat_message" ->
            << [type |-> "message", message_id |-> ev.message_id,
                message |-> ev.message, sender_id |-> ev.sender_id,
                sender_name |-> ev.sender_name] >>
      [] ev.type = "message_read" ->
            << [type |-> "read", message_ids |-> ev.message_ids] >>
      [] ev.type \in {"typing", "stop_typing"} ->
            IF ev.user_id /= uid
            THEN << [type |-> ev.type, user_id |-> ev.user_id] >>
            ELSE << >>
      [] ev.type = "deleted" -> << >>
      [] ev.type = "user_status" ->
            << [type |-> "status", user_id |-> ev.user_id,
                is_online |-> ev.is_online] >>

\* The frame a chat session's handler sends to the browser for a group event
\* (chat_message, message_read, typing, stop_typing, deleted, user_status);
\* NoFrame when the handler sends nothing.
ChatForward(uid, ev) ==
    CASE ev.type = "chat_message" ->
            << [type |-> "message", message_id |-> ev.message_id,
                message |-> ev.message, sender_id |-> ev.sender_id,
                sender_name |-> ev.sender_name] >>
      [] ev.type = "message_read" ->
            << [type |-> "read", message_ids |-> ev.message_ids] >>
      [] ev.type \in {"typing", "stop_typing"} ->
            IF ev.user_id /= uid
            THEN << [type |-> ev.type, user_id |-> ev.user_id] >>
            ELSE << >>
      [] ev.type = "deleted" ->
            << [type |-> "deleted", message_id |-> ev.message_id] >>
      [] ev.type = "user_status" ->
            << [type |-> "status", user_id |-> ev.user_id,
                is_online |-> ev.is_online] >>

\* A group event is taken from the channel and handled
ChatDeliver(c) ==
    /\ scope[c].kind = "chat"
    /\ pc[c] = "open"
    /\ inbox[c] /= << >>
    /\ LET out == ChatForward(scope[c].user, Head(inbox[c])) IN
       client' = IF out = NoFrame THEN client ELSE [client EXCEPT ![c] = out]
    /\ inbox' = [inbox EXCEPT ![c] = Tail(@)]
    /\ UNCHANGED << store, groups, scope, pc, room, local, http, nframes, limit >>

\* ------------------------------------------------------------ chat_view
\* login_required and get_object_or_404, then get_or_create's first get
ChatViewGet(r, u, peer) ==
    /\ http[r].pc \in {"new", "h_get"}
    /\ http[r].pc = "new" => /\ r <= Runs[limit].reqs
                             /\ << u, peer >> \in Runs[limit].views
                             /\ \A q \in Reqs : q < r => http[q].pc /= "new"
    /\ http[r].pc = "h_get" => u = http[r].user /\ peer = http[r].peer
    /\ LET p == ViewPair(u, peer)
           rows == ConversationRows(p[1], p[2])
           req == [http[r] EXCEPT !.user = u, !.peer = peer]
       IN  IF ~UserExists(peer) \/ Cardinality(rows) > 1
           THEN /\ http' = [http EXCEPT ![r] = [req EXCEPT !.pc = "error"]]
           ELSE IF rows = {}
           THEN /\ http' = [http EXCEPT ![r] = [req EXCEPT !.pc = "h_create"]]
           ELSE LET cv == CHOOSE x \in rows : TRUE IN
                /\ http' = [http EXCEPT ![r] = [req EXCEPT !.pc = "done", !.conv = cv.id]]
    /\ UNCHANGED << store, groups, scope, pc, room, local, inbox, client, nframes, limit >>

\* get_or_create: the INSERT; the unique constraint rejects a second row
ChatViewCreate(r) ==
    /\ http[r].pc = "h_create"
    /\ LET p == ViewPair(http[r].user, http[r].peer) IN
       IF UniqueTogether(p[1], p[2])
       THEN /\ conversations' = conversations \cup
                    { [id |-> nextConv, user1 |-> p[1], user2 |-> p[2]] }
            /\ nextConv' = nextConv + 1
            /\ http' = [http EXCEPT ![r].pc = "done", ![r].conv = nextConv]
       ELSE /\ http' = [http EXCEPT ![r].pc = "h_get"]
            /\ UNCHANGED << conversations, nextConv >>
    /\ UNCHANGED << is_online, messages, nextMsg, groups, scope, pc, room, local, inbox,
                    client, nframes, limit >>

\* ------------------------------------------------------------ specification
Next ==
    \/ \E c \in Conns : PresenceConnect(c)
    \/ \E c \in Conns : PresenceConnectStatus(c)
    \/ \E c \in Conns : PresenceConnectSend(c)
    \/ \E c \in Conns : PresenceDisconnect(c)
    \/ \E c \in Conns : PresenceDisconnectSend(c)
    \/ \E c \in Conns : PresenceDisconnectDiscard(c)
    \/ \E c \in Conns : PresenceDeliver(c)
    \/ \E c \in Conns : ChatConnect(c)
    \/ \E c \in Conns : ChatConnectStatus(c)
    \/ \E c \in Conns : ChatConnectSend(c)
    \/ \E c \in Conns : ChatDisconnect(c)
    \/ \E c \in Conns : ChatDisconnectStatus(c)
    \/ \E c \in Conns : ChatDisconnectSend(c)
    \/ \E c \in Conns, f \in Runs[limit].alphabet : ReceiveRaises(c, f)
    \/ \E c \in Conns, f \in Runs[limit].alphabet : ReceiveIgnored(c, f)
    \/ \E c \in Conns, f \in Runs[limit].alphabet : ReceiveMessage(c, f)
    \/ \E c \in Conns : SaveMessageCreate(c)
    \/ \E c \in Conns : SaveMessageReget(c)
    \/ \E c \in Conns : SaveMessageInsert(c)
    \/ \E c \in Conns : MessageSend(c)
    \/ \E c \in Conns, f \in Runs[limit].alphabet : ReceiveMarkAsRead(c, f)
    \/ \E c \in Conns : MarkReadSend(c)
    \/ \E c \in Conns, f \in Runs[limit].alphabet : ReceiveTyping(c, f)
    \/ \E c \in Conns, f \in Runs[limit].alphabet : ReceiveDeleteMessage(c, f)
    \/ \E c \in Conns : DeleteSend(c)
    \/ \E c \in Conns : ChatDeliver(c)
    \/ \E r \in Reqs, v \in Runs[limit].views : ChatViewGet(r, v[1], v[2])
    \/ \E r \in Reqs : ChatViewCreate(r)

Spec == Init /\ [][Next]_vars

\* ------------------------------------------------------------ shared notions
\* The connection whose handler makes the step
Steps(c) == pc'[c] /= pc[c] \/ local'[c] /= local[c]

ChatConns == { c \in Conns : scope[c].kind = "chat" }

\* A get_or_create call that has returned: [via, user, peer, conv]
Resolved ==
    { [via |-> "ws", user |-> scope[c].user, peer |-> scope[c].other_user_id,
       conv |-> local[c].conv] : c \in { d \in ChatConns : pc[d] \in {"sm_msg", "sm_send"} } }
    \cup
    { [via |-> "http", user |-> http[r].user, peer |-> http[r].peer,
       conv |-> http[r].conv] : r \in { q \in Reqs : http[q].pc = "done" } }

\* The rows of the unordered pair {a, b}
PairRows(a, b) == { cv \in conversations : {cv.user1, cv.user2} = {a, b} }

\* ------------------------------------------------------------ claims
\* C1: a connection with an anonymous identity, on either consumer, never joins
\* a group, and no step of its connect or disconnect handler changes the group
\* membership, puts an event on any channel or changes the store.
C1_AnonymousNoEffect ==
    [][ \A c \in Conns :
            scope[c].user = Anonymous =>
                /\ \A x \in groups' : x[2] /= c
                /\ room'[c] = NoGroup
                /\ Steps(c) => /\ groups' = groups
                               /\ inbox' = inbox
                               /\ store' = store ]_vars

\* C1 witness: an anonymous chat connection has run connect and disconnect to
\* the end, next to another session that did change the store.
C1_Witness ==
    \E c \in Conns, d \in Conns :
        /\ scope[c].kind = "chat" /\ scope[c].user = Anonymous /\ pc[c] = "closed"
        /\ scope[d].user \in Users /\ pc[d] = "open" /\ is_online[scope[d].user]

\* C2: in every state the store holds at most one Conversation row per
\* unordered user pair, exactly one when a get_or_create call for the pair has
\* returned, and no row is ever removed.
C2_OneRowPerPair ==
    /\ [](\A a \in Users, b \in Users :
            /\ Cardinality(PairRows(a, b)) <= 1
            /\ (\E x \in Resolved : {x.user, x.peer} = {a, b})
                    => Cardinality(PairRows(a, b)) = 1)
    /\ [][conversations \subseteq conversations']_vars

\* C2 witness: a chat page has its row while the INSERT of a session of the
\* other participant was rejected by the unique constraint.
C2_Witness ==
    \E c \in ChatConns, r \in Reqs :
        /\ pc[c] = "sm_reget"
        /\ http[r].pc = "done"
        /\ http[r].user = scope[c].other_user_id /\ http[r].peer = scope[c].user
        /\ http[r].user /= http[r].peer

\* C3 (as claimed): every Conversation row has user1 < user2.
C3_StrictOrder == \A cv \in conversations : cv.user1 < cv.user2

\* C4: get_or_create calls of A with peer B and of B with peer A, through
\* save_message or chat_view, return the same row: the row of the pair.
C4_SameRow ==
    \A x \in Resolved, y \in Resolved :
        {x.user, x.peer} = {y.user, y.peer} =>
            /\ x.conv = y.conv
            /\ \E cv \in conversations :
                    cv.id = x.conv /\ {cv.user1, cv.user2} = {x.user, x.peer}

\* C4 witness: a session of A with peer B and a chat page of B with peer A have
\* both resolved their conversation.
C4_Witness ==
    \E x \in Resolved, y \in Resolved :
        /\ x.via = "ws" /\ y.via = "http"
        /\ x.user = y.peer /\ x.peer = y.user /\ x.user > x.peer

\* C5: no step changes is_read of a message while handling a mark_as_read frame
\* of the message's own sender: whenever a row's is_read changes, the session
\* whose mark_as_read made the step has another user than the row's sender.
C5_SenderNeverMarks ==
    [][ \A m \in messages, n \in messages' :
            (n.id = m.id /\ n.is_read /= m.is_read) =>
                \E c \in ChatConns :
                    /\ pc[c] = "open" /\ pc'[c] = "mr_send"
                    /\ m.id \in Range(local'[c].message_ids)
                    /\ scope[c].user /= m.sender ]_vars

\* C5 witness: the sender's own mark_as_read naming its unread message was
\* handled, and the message is still unread.
C5_Witness ==
    \E c \in ChatConns, m \in messages :
        /\ pc[c] = "mr_send"
        /\ m.id \in Range(local[c].message_ids)
        /\ m.sender = scope[c].user
        /\ ~m.is_read

\* The step in which c's receive takes the frame f
Receive(c, f) ==
    \/ ReceiveRaises(c, f) \/ ReceiveIgnored(c, f) \/ ReceiveMessage(c, f)
    \/ ReceiveMarkAsRead(c, f) \/ ReceiveTyping(c, f) \/ ReceiveDeleteMessage(c, f)

\* A chat session that has joined the room g and has not left it
JoinedRoom(d, g) ==
    /\ scope[d].kind = "chat"
    /\ room[d] = g
    /\ pc[d] \notin {"new", "rejected", "d_status", "d_send", "closed", "crashed"}

\* The step puts the event ev on the channel of every session joined to the
\* room g, and on no other channel
SentToRoom(g, ev) ==
    \A d \in Conns :
        inbox'[d] = IF JoinedRoom(d, g) THEN Append(inbox[d], ev) ELSE inbox[d]

\* The step in which the session d handles the group event at the head of its
\* channel
Handles(d) ==
    /\ pc[d] = "open" /\ pc'[d] = "open"
    /\ inbox[d] /= << >> /\ inbox'[d] = Tail(inbox[d])

\* The user of a session is the recipient of the message m: the other
\* participant of m's conversation
Recipient(u, m) ==
    \E cv \in conversations :
        cv.id = m.conversation /\ u \in {cv.user1, cv.user2} /\ u /= m.sender

\* C6 (as claimed): a message's is_read becomes true only in a step that
\* handles a mark_as_read frame of the message's recipient.
C6_OnlyRecipientMarks ==
    [][ \A m \in messages, n \in messages' :
            (n.id = m.id /\ ~m.is_read /\ n.is_read) =>
                \E c \in ChatConns :
                    /\ pc[c] = "open" /\ pc'[c] = "mr_send"
                    /\ Recipient(scope[c].user, m) ]_vars

\* C7: a step removes a Message row if and only if it handles a delete_message
\* frame that names the row's id and comes from a session of the row's sender;
\* a delete_message step removes nothing else, changes no row, and leaves the
\* session running and joined to its room.
C7_DeleteOnlyBySender ==
    [][ /\ \A m \in messages :
              (\A n \in messages' : n.id /= m.id) <=>
                  \E c \in ChatConns :
                      /\ pc[c] = "open" /\ pc'[c] = "dm_send"
                      /\ local'[c].message_id = m.id
                      /\ scope[c].user = m.sender
        /\ \A c \in ChatConns :
              (pc[c] = "open" /\ pc'[c] = "dm_send") =>
                  /\ messages' \subseteq messages
                  /\ << room[c], c >> \in groups'
                  /\ JoinedRoom(c, room[c])' ]_vars

\* C7 witness: two sessions of the sender have both handled a delete_message
\* for the same message, which is gone: one of them removed nothing.
C7_Witness ==
    \E c \in ChatConns, d \in ChatConns :
        /\ c /= d
        /\ pc[c] = "dm_send" /\ pc[d] = "dm_send"
        /\ local[c].message_id = local[d].message_id
        /\ scope[c].user = scope[d].user
        /\ local[c].message_id < nextMsg
        /\ \A m \in messages : m.id /= local[c].message_id

\* A delete_message frame that carries a message_id
CarriesId(f) == f \in DeleteFrames /\ "message_id" \in DOMAIN f.data

Trimmed(t) == t = << >> \/ (Head(t) \notin Whitespace /\ t[Len(t)] \notin Whitespace)

\* The chat_message event of the message a session is about to broadcast
MessageEvent(c) ==
    [type |-> "chat_message", message_id |-> local[c].message,
     message |-> local[c].content, sender_id |-> scope[c].user,
     sender_name |-> Username(scope[c].user)]

\* C9: sessions of u with peer v and of v with peer u are in the same room,
\* chat_{min}_{max}.  The row a message frame creates has the sender's id and
\* the frame's trimmed, non-empty text; the send that follows puts a
\* chat_message event with the sender's id, that text and the row's id on the
\* channel of every session joined to the room, the sender's included; a
\* session that handles the event sends its client a message frame with the
\* same sender_id, text and message_id.
C9_MessageReachesBoth ==
    /\ [](\A c \in ChatConns, d \in ChatConns :
            ( /\ room[c] /= NoGroup /\ room[d] /= NoGroup
              /\ scope[c].user = scope[d].other_user_id
              /\ scope[d].user = scope[c].other_user_id )
            => /\ room[c] = room[d]
               /\ room[c] = << "chat", Min(scope[c].user, scope[d].user),
                               Max(scope[c].user, scope[d].user) >>)
    /\ [][ \A c \in ChatConns :
              (pc[c] = "sm_msg" /\ pc'[c] /= "sm_msg") =>
                  /\ pc'[c] = "sm_send"
                  /\ local'[c].content /= << >> /\ Trimmed(local'[c].content)
                  /\ \E m \in messages' \ messages :
                        /\ m.id = local'[c].message
                        /\ m.sender = scope[c].user
                        /\ m.content = local'[c].content
                        /\ \A n \in messages : n.id /= m.id ]_vars
    /\ [][ \A c \in ChatConns, f \in MessageFrames :
              (Receive(c, f) /\ pc'[c] /= "open") =>
                  /\ local'[c].content = Strip(f.data.message)
                  /\ local'[c].content /= << >> ]_vars
    /\ [][ \A c \in ChatConns :
              (pc[c] = "sm_send" /\ pc'[c] /= "sm_send") =>
                  /\ JoinedRoom(c, room[c])
                  /\ SentToRoom(room[c], MessageEvent(c)) ]_vars
    /\ [][ \A d \in ChatConns :
              (Handles(d) /\ Head(inbox[d]).type = "chat_message") =>
                  client'[d] = << [type |-> "message",
                                   message_id |-> Head(inbox[d]).message_id,
                                   message |-> Head(inbox[d]).message,
                                   sender_id |-> Head(inbox[d]).sender_id,
                                   sender_name |-> Head(inbox[d]).sender_name] >> ]_vars

\* C9 witness: the sessions of two users with each other as peer have both sent
\* their client the message frame of a stored message of one of them.
C9_Witness ==
    \E c \in ChatConns, d \in ChatConns, m \in messages :
        /\ scope[c].user /= scope[d].user
        /\ scope[c].other_user_id = scope[d].user
        /\ scope[d].other_user_id = scope[c].user
        /\ m.sender = scope[c].user
        /\ client[c] = << [type |-> "message", message_id |-> m.id,
                           message |-> m.content, sender_id |-> m.sender,
                           sender_name |-> Username(m.sender)] >>
        /\ client[d] = client[c]

\* C10: a step that handles a mark_as_read frame with a non-empty id list sets
\* is_read of every stored message that is listed and was not sent by the
\* reader, and changes no other row; is_read never goes back to false; the send
\* that follows puts a message_read event with the same list on the channel of
\* every session joined to the room, the reader's included; a session that
\* handles the event sends its client a read frame with the same list.  A
\* mark_as_read frame with an empty or missing list changes no row and sends
\* nothing.
C10_MarkAsRead ==
    /\ [][ \A c \in ChatConns :
              (pc[c] = "open" /\ pc'[c] = "mr_send") =>
                  /\ local'[c].message_ids /= << >>
                  /\ \A m \in messages :
                        IF m.id \in Range(local'[c].message_ids)
                           /\ m.sender /= scope[c].user
                        THEN [m EXCEPT !.is_read = TRUE] \in messages'
                        ELSE m \in messages'
                  /\ Cardinality(messages') = Cardinality(messages) ]_vars
    /\ [][ \A m \in messages, n \in messages' :
              (n.id = m.id /\ m.is_read) => n.is_read ]_vars
    /\ [][ \A c \in ChatConns :
              (pc[c] = "mr_send" /\ pc'[c] /= "mr_send") =>
                  /\ JoinedRoom(c, room[c])
                  /\ SentToRoom(room[c], [type |-> "message_read",
                                          message_ids |-> local[c].message_ids]) ]_vars
    /\ [][ \A d \in ChatConns :
              (Handles(d) /\ Head(inbox[d]).type = "message_read") =>
                  client'[d] = << [type |-> "read",
                                   message_ids |-> Head(inbox[d]).message_ids] >> ]_vars
    /\ [][ \A c \in ChatConns, f \in MarkFrames :
              (Get(f.data, "message_ids", << >>) = << >> /\ Receive(c, f)) =>
                  /\ messages' = messages
                  /\ inbox' = inbox
                  /\ pc' = pc ]_vars

\* C10 witness: the recipient's mark_as_read has set is_read of the sender's
\* message, and the sessions of both have sent their client the read frame.
C10_Witness ==
    \E c \in ChatConns, d \in ChatConns, m \in messages :
        /\ m.sender = scope[d].user /\ m.sender /= scope[c].user
        /\ room[c] = room[d]
        /\ m.is_read
        /\ client[c] = << [type |-> "read", message_ids |-> << m.id >>] >>
        /\ client[d] = client[c]

\* The frame types of the typing family
TypingTypes == {"typing", "stop_typing"}

\* C11: a step that handles a typing or stop_typing frame of a session of user
\* u puts the event, with user_id u, on the channel of every session joined to
\* the room and changes no store row; a session that handles the event sends
\* its client the frame with user_id u when its own user is not u, and sends
\* nothing when its own user is u; so no session's client ever holds a typing
\* or stop_typing frame of the session's own user.
C11_TypingNotEchoed ==
    /\ [][ \A c \in ChatConns, f \in TypingFrames :
              Receive(c, f) =>
                  /\ SentToRoom(room[c], [type |-> f.data.type,
                                          user_id |-> scope[c].user])
                  /\ store' = store ]_vars
    /\ [][ \A d \in ChatConns :
              (Handles(d) /\ Head(inbox[d]).type \in TypingTypes) =>
                  /\ store' = store
                  /\ client'[d] =
                        IF Head(inbox[d]).user_id /= scope[d].user
                        THEN << [type |-> Head(inbox[d]).type,
                                 user_id |-> Head(inbox[d]).user_id] >>
                        ELSE client[d] ]_vars
    /\ [](\A d \in ChatConns :
            (client[d] /= NoFrame /\ client[d][1].type \in TypingTypes)
                => client[d][1].user_id /= scope[d].user)

\* C11 witness: the peer's session has sent its client the typing frame of a
\* typist whose own session has handled the event too and sent nothing for it.
C11_Witness ==
    \E c \in ChatConns, d \in ChatConns :
        /\ scope[c].user /= scope[d].user
        /\ room[c] = room[d]
        /\ pc[c] = "open" /\ inbox[c] = << >>
        /\ client[d] = << [type |-> "typing", user_id |-> scope[c].user] >>
        /\ client[c] /= NoFrame /\ client[c][1].type \notin TypingTypes

\* The positions of a handler that has taken a message frame and not returned
SavingStates == {"sm_create", "sm_reget", "sm_msg", "sm_send"}

\* The user u has one chat connection
SingleSession(u) == Cardinality({ c \in ChatConns : scope[c].user = u }) = 1

\* C12: a connection takes a frame only when its handler of the frame before
\* has returned (the row written and the broadcast sent); a created row gets
\* an id above the id of every row created before it; so the rows of one
\* connection are created in the order of its frames, and on every channel the
\* chat_message events of a sender with one connection stand in the order of
\* their rows' creation.
C12_ArrivalOrder ==
    /\ [][ nframes' /= nframes =>
              \A c \in ChatConns : Steps(c) => pc[c] = "open" /\ local[c] = NoLocal ]_vars
    /\ [](\A c \in ChatConns :
            /\ pc[c] = "open" => local[c] = NoLocal
            /\ pc[c] = "sm_send" => local[c].message < nextMsg)
    /\ [](\A m \in messages : m.id < nextMsg)
    /\ [][ nextMsg' >= nextMsg ]_vars
    /\ [][ \A c \in ChatConns :
              (pc[c] = "sm_msg" /\ pc'[c] = "sm_send") =>
                  /\ local'[c].message = nextMsg
                  /\ nextMsg' = nextMsg + 1
                  /\ \E m \in messages' \ messages : m.id = nextMsg ]_vars
    /\ [](\A d \in ChatConns : \A i \in DOMAIN inbox[d], j \in DOMAIN inbox[d] :
            ( /\ i < j
              /\ inbox[d][i].type = "chat_message"
              /\ inbox[d][j].type = "chat_message"
              /\ inbox[d][i].sender_id = inbox[d][j].sender_id
              /\ SingleSession(inbox[d][i].sender_id) )
            => inbox[d][i].message_id < inbox[d][j].message_id)

\* C12 witness: the channel of the peer holds the chat_message events of two
\* frames of one connection, both rows stored.
C12_Witness ==
    \E d \in ChatConns : \E i \in DOMAIN inbox[d], j \in DOMAIN inbox[d] :
        /\ i < j
        /\ inbox[d][i].type = "chat_message"
        /\ inbox[d][j].type = "chat_message"
        /\ inbox[d][i].sender_id = inbox[d][j].sender_id
        /\ inbox[d][i].sender_id /= scope[d].user
        /\ SingleSession(inbox[d][i].sender_id)
        /\ \E m \in messages, n \in messages :
              m.id = inbox[d][i].message_id /\ n.id = inbox[d][j].message_id

\* The step in which c's handler sends its chat_message event
SendsMessage(c) == pc[c] = "sm_send" /\ pc'[c] /= "sm_send"

\* C13 (as claimed): every chat_message event is sent while the row of its id
\* is in the store.
C13_RowExistsAtSend ==
    [][ \A c \in ChatConns :
            SendsMessage(c) => \E m \in messages : m.id = local[c].message ]_vars

\* C13 (amended): a handler reaches its send only through the step that created
\* the Message row, and the event carries that row's id; at the send the row is
\* in the store with the sender and the text of the handler, or it is in the
\* store no more (another session of the sender deleted it); a chat_message
\* event is put on a channel only by such a send.  A message frame on a session
\* whose peer id has no user row creates no row, sends nothing and leaves the
\* session joined and open.
C13_BroadcastAfterSave ==
    /\ [][ \A c \in ChatConns :
              (pc'[c] = "sm_send" /\ pc[c] /= "sm_send") =>
                  /\ pc[c] = "sm_msg"
                  /\ \E m \in messages' \ messages :
                        /\ m.id = local'[c].message
                        /\ m.sender = scope[c].user
                        /\ m.content = local'[c].content ]_vars
    /\ [](\A c \in ChatConns :
            pc[c] = "sm_send" =>
                /\ local[c].message \in 1..(nextMsg - 1)
                /\ \A m \in messages :
                      m.id = local[c].message =>
                          m.sender = scope[c].user /\ m.content = local[c].content)
    /\ [][ \A d \in Conns :
              ( /\ Len(inbox'[d]) = Len(inbox[d]) + 1
                /\ inbox'[d][Len(inbox'[d])].type = "chat_message" ) =>
                  \E c \in ChatConns :
                      /\ SendsMessage(c)
                      /\ room[c] = room[d]
                      /\ inbox'[d][Len(inbox'[d])].message_id = local[c].message ]_vars
    /\ [][ \A c \in ChatConns, f \in MessageFrames :
              (scope[c].other_user_id \notin Users /\ Receive(c, f)) =>
                  /\ pc'[c] = "open"
                  /\ store' = store
                  /\ inbox' = inbox
                  /\ groups' = groups ]_vars
    /\ [](\A c \in ChatConns :
            pc[c] \in {"sm_create", "sm_reget", "sm_msg", "sm_send"}
                => scope[c].other_user_id \in Users)
    /\ [](\A cv \in conversations : cv.user1 \in Users /\ cv.user2 \in Users)

\* C13 witness: a handler is about to send the event of a row that another
\* session of the sender has deleted and announced as deleted.
C13_Witness ==
    \E c \in ChatConns, d \in ChatConns :
        /\ c /= d
        /\ pc[c] = "sm_send"
        /\ \A m \in messages : m.id /= local[c].message
        /\ pc[d] = "open"
        /\ client[d] = << [type |-> "deleted", message_id |-> local[c].message] >>

\* A connection whose session has ended: its consumer runs no more
Ended(c) == pc[c] \in {"closed", "crashed"}

\* C14 (as claimed): no group contains a connection whose session has ended,
\* and a user whose only session has ended is offline in the store.
C14_TeardownOnEveryEnd ==
    /\ \A x \in groups : ~Ended(x[2])
    /\ \A c \in Conns :
          ( /\ Ended(c) /\ room[c] /= NoGroup
            /\ \A d \in Conns \ {c} : scope[d].user /= scope[c].user )
          => ~is_online[scope[c].user]

\* Malformed frames: text that does not parse, a value that is no object, a
\* message frame without text, a type that no branch handles
Malformed == BadFrames \cup { Object([type |-> "message"]) }

\* C15 (as claimed): a malformed frame changes no store row, puts no event on
\* any channel, sends the client nothing and leaves the session joined and
\* open for the frames that follow.
C15_MalformedDropped ==
    [][ \A c \in ChatConns, f \in Malformed :
            Receive(c, f) =>
                /\ store' = store
                /\ inbox' = inbox
                /\ client' = client
                /\ groups' = groups
                /\ pc'[c] = "open" ]_vars

\* The step in which c's connect writes the user's status
ConnectWrite(c) == pc[c] \in {"p_status", "c_status"} /\ pc'[c] /= pc[c]

\* The step in which the disconnect of a session of a user writes the status
DisconnectWrite(c) ==
    \/ scope[c].kind = "presence" /\ pc[c] = "open" /\ pc'[c] = "pd_send"
    \/ scope[c].kind = "chat" /\ pc[c] = "d_status" /\ pc'[c] = "d_send"
          /\ scope[c].user \in Users

\* A session that has joined its group, was accepted and has not ended
Joined(c) == pc[c] \notin {"new", "rejected", "p_status", "c_status", "p_send", "c_send",
                           "pd_send", "pd_discard", "d_status", "d_send",
                           "closed", "crashed"}

\* C16: is_online is written by the connect and the disconnect of every
\* session and by nothing else: a connect writes true for its user, a
\* disconnect writes false for its user whatever other sessions the user has,
\* and neither touches another user's flag.
C16_LastWriterWins ==
    /\ [][ \A c \in Conns :
              ConnectWrite(c) => is_online' = [is_online EXCEPT ![scope[c].user] = TRUE] ]_vars
    /\ [][ \A c \in Conns :
              DisconnectWrite(c) =>
                  is_online' = [is_online EXCEPT ![scope[c].user] = FALSE] ]_vars
    /\ [][ is_online' /= is_online =>
              \E c \in Conns : ConnectWrite(c) \/ DisconnectWrite(c) ]_vars

\* C16 witness: the user's chat session is joined and open, the user's presence
\* session has closed, and the store says the user is offline.
C16_Witness ==
    \E c \in Conns, d \in Conns :
        /\ scope[c].kind = "chat" /\ scope[d].kind = "presence"
        /\ scope[c].user = scope[d].user
        /\ Joined(c) /\ << room[c], c >> \in groups
        /\ pc[d] = "closed" /\ room[d] /= NoGroup
        /\ ~is_online[scope[c].user]

\* The step in which c's handler sends its message_read event
SendsRead(c) == pc[c] = "mr_send" /\ pc'[c] /= "mr_send"

\* C17 (as claimed): when a message_read event is sent, every stored message
\* it lists is read and was sent to the user whose frame caused the event.
C17_ReceiptMeansRead ==
    [][ \A c \in ChatConns :
            SendsRead(c) =>
                \A m \in messages :
                    m.id \in Range(local[c].message_ids) =>
                        m.is_read /\ Recipient(scope[c].user, m) ]_vars

\* C17 (amended): the message_read event carries the id list of the frame,
\* whatever the UPDATE changed.  When the UPDATE has run, every stored message
\* of the list that the reader did not send is read, and it stays read (or is
\* deleted) until the event is sent; a listed message that the reader sent
\* keeps its is_read.
C17_ReceiptCarriesFrameList ==
    /\ [][ \A c \in ChatConns, f \in MarkFrames :
              (Receive(c, f) /\ pc'[c] = "mr_send") =>
                  /\ local'[c].message_ids = f.data.message_ids
                  /\ \A n \in messages' :
                        (n.id \in Range(f.data.message_ids) /\ n.sender /= scope[c].user)
                            => n.is_read
                  /\ \A m \in messages :
                        m.sender = scope[c].user => m \in messages' ]_vars
    /\ [][ \A c \in ChatConns :
              (pc[c] = "mr_send" /\ pc'[c] = "mr_send") =>
                  /\ local'[c] = local[c]
                  /\ \A m \in messages, n \in messages' :
                        (n.id = m.id /\ m.is_read) => n.is_read ]_vars
    /\ [][ \A c \in ChatConns :
              SendsRead(c) =>
                  \A d \in Conns :
                      JoinedRoom(d, room[c]) =>
                          /\ inbox'[d] /= << >>
                          /\ inbox'[d][Len(inbox'[d])] =
                                [type |-> "message_read",
                                 message_ids |-> local[c].message_ids] ]_vars

\* C17 witness: a session was sent the read frame for a stored message that is
\* unread: the frame came from the message's own sender.
C17_Witness ==
    \E c \in ChatConns, d \in ChatConns, m \in messages :
        /\ c /= d
        /\ m.sender = scope[c].user
        /\ ~m.is_read
        /\ pc[c] = "open" /\ inbox[c] = << >>
        /\ client[c] = << [type |-> "read", message_ids |-> << m.id >>] >>
        /\ client[d] = client[c]

\* The text of a message frame: data.get("message", "")
TextOf(f) == Get(f.data, "message", << >>)

\* C18: every stored Message row has non-empty content with no whitespace at
\* either end; the content a handler saves is the stripped text of its frame; a
\* message frame whose text is empty, blank or absent changes no store row,
\* sends nothing and starts no save; a frame without a type has the effect of
\* the message frame with the same text.
C18_ContentTrimmed ==
    /\ [](\A m \in messages : m.content /= << >> /\ Trimmed(m.content))
    /\ [](\A c \in ChatConns :
            pc[c] \in SavingStates =>
                /\ local[c].content /= << >>
                /\ Trimmed(local[c].content))
    /\ [][ \A c \in ChatConns :
              (pc[c] = "sm_msg" /\ pc'[c] = "sm_send") =>
                  \E m \in messages' \ messages : m.content = local[c].content ]_vars
    /\ [][ nframes' /= nframes =>
              \A c \in ChatConns, f \in MessageFrames :
                  Receive(c, f) =>
                      IF \A i \in DOMAIN TextOf(f) : TextOf(f)[i] \in Whitespace
                      THEN /\ store' = store
                           /\ inbox' = inbox
                           /\ pc' = pc
                           /\ local' = local
                      ELSE /\ pc'[c] \in SavingStates \cup {"open"}
                           /\ pc'[c] \in SavingStates =>
                                 local'[c].content = RStrip(LStrip(TextOf(f))) ]_vars
    /\ [][ nframes' /= nframes =>
              \A c \in ChatConns, t \in Texts :
                  { Object([message |-> t]), Object([type |-> "message", message |-> t]) }
                        \subseteq Runs[limit].alphabet
                  => ( Receive(c, Object([message |-> t]))
                         <=> Receive(c, Object([type |-> "message", message |-> t])) ) ]_vars

\* C18 witness: of two frames without a type, the one with padded text has
\* created the conversation and a row with the stripped text, and the other,
\* blank or without text, has created nothing.
C18_Witness ==
    /\ Runs[limit].alphabet = Untyped
    /\ nframes = 2
    /\ nextMsg = 2 /\ nextConv = 2
    /\ \E m \in messages : m.content = << "h" >>
    /\ \E c \in ChatConns, m \in messages :
          client[c] = << [type |-> "message", message_id |-> m.id,
                          message |-> << "h" >>, sender_id |-> m.sender,
                          sender_name |-> Username(m.sender)] >>

\* The sessions of the user u that were opened: their connect has started
Opened(u) == { c \in Conns : scope[c].user = u /\ pc[c] /= "new" }

\* C19: when every session a user has opened has run its disconnect handler to
\* the end, the user is offline in the store.
C19_OfflineWhenAllClosed ==
    \A u \in Users :
        (Opened(u) /= {} /\ \A c \in Opened(u) : pc[c] = "closed") => ~is_online[u]

\* C19 witness: a presence session and a chat session of one user, both joined
\* in their time, have both run their disconnect to the end.
C19_Witness ==
    \E c \in Conns, d \in Conns :
        /\ scope[c].kind = "presence" /\ scope[d].kind = "chat"
        /\ scope[c].user = scope[d].user /\ scope[c].user \in Users
        /\ pc[c] = "closed" /\ pc[d] = "closed"
        /\ room[c] /= NoGroup /\ room[d] /= NoGroup
        /\ client[c] /= NoFrame

\* The users a chat event names as its origin
Origin(ev) ==
    CASE ev.type = "chat_message" -> { ev.sender_id }
      [] ev.type \in {"typing", "stop_typing", "user_status"} -> { ev.user_id }
      [] OTHER -> {}

\* C20: a chat session of user u with peer p is a member of no group but the
\* room of the pair {u, p}; the row it stores has sender u and the conversation
\* of the pair {u, p}; every message's sender is one of its conversation's two
\* users; one send reaches the sessions of one room only, and the events on the
\* channel of a session come from users of its room's pair, as the session's
\* own user is.
C20_RoomIsolation ==
    /\ [](\A x \in groups :
            scope[x[2]].kind = "chat" =>
                /\ x[1] = << "chat", Min(scope[x[2]].user, scope[x[2]].other_user_id),
                             Max(scope[x[2]].user, scope[x[2]].other_user_id) >>
                /\ x[1] = room[x[2]])
    /\ [](\A m \in messages : \E cv \in conversations :
            cv.id = m.conversation /\ m.sender \in {cv.user1, cv.user2})
    /\ [][ \A c \in ChatConns :
              (pc[c] = "sm_msg" /\ pc'[c] = "sm_send") =>
                  \E m \in messages' \ messages, cv \in conversations :
                      /\ m.sender = scope[c].user
                      /\ m.conversation = cv.id
                      /\ {cv.user1, cv.user2} = {scope[c].user, scope[c].other_user_id} ]_vars
    /\ [][ \A d \in Conns, e \in Conns :
              (Len(inbox'[d]) > Len(inbox[d]) /\ Len(inbox'[e]) > Len(inbox[e]))
                  => room[d] = room[e] ]_vars
    /\ [](\A d \in ChatConns :
            inbox[d] /= << >> =>
                /\ scope[d].user \in {room[d][2], room[d][3]}
                /\ \A i \in DOMAIN inbox[d] :
                      Origin(inbox[d][i]) \subseteq {room[d][2], room[d][3]})

\* C20 witness: user 1 has sent its peer a message and got the frame back,
\* while the joined session of a user outside the pair, with user 1 as its
\* peer, was sent no message frame and has nothing waiting.
C20_Witness ==
    \E c \in ChatConns, d \in ChatConns, m \in messages :
        /\ scope[d].user \notin {scope[c].user, scope[c].other_user_id}
        /\ scope[d].other_user_id = scope[c].user
        /\ m.sender = scope[c].user
        /\ client[c] /= NoFrame /\ client[c][1].type = "message"
        /\ pc[d] = "open" /\ inbox[d] = << >>
        /\ client[d] /= NoFrame /\ client[d][1].type = "status"

====
